---- MODULE Spec2Model ----
(***************************************************************************)
(* mmlog: a logger that appends formatted records to a ring buffer kept in *)
(* a memory-mapped file.  The file is a usize header holding the next      *)
(* write offset, followed by the payload ring.                             *)
(*                                                                         *)
(* Bytes are one-character strings; NUL is the zero byte that ftruncate    *)
(* leaves in the parts of a file it extends.  A file's payload is kept as  *)
(* a function from the indices holding a non-zero byte to that byte (a     *)
(* file with holes): every other index below the capacity reads as NUL.    *)
(***************************************************************************)
EXTENDS Integers, Sequences, FiniteSets, TLC

(***************************************************************************)
(* Program constants.                                                      *)
(***************************************************************************)
KB == 1024
MIN_SIZE == 512 * KB
HEADER_SIZE == 8

(***************************************************************************)
(* usize.  The sizes of the program are 64-bit words, which the integers   *)
(* TLC computes with do not reach: a usize of the upper half of the range  *)
(* is written as the negative integer the same word is as an i64, so       *)
(* usize::MAX is -1 and usize::MAX - 8 is -9.  Wrapping addition and       *)
(* subtraction are then the integers' own; the order and the overflow test *)
(* are the ones below.  The sizes of the model lie within 2^31 of either   *)
(* end of the range.                                                       *)
(***************************************************************************)
usize_MAX == -1

\* a < b between usize values.
usize_lt(a, b) == IF (a < 0) = (b < 0) THEN a < b ELSE b < 0

\* a <= b between usize values.
usize_le(a, b) == a = b \/ usize_lt(a, b)

\* The larger of two usize values.
usize_max(a, b) == IF usize_lt(a, b) THEN b ELSE a

\* a + b does not fit the word: the wrapped sum is below a.
add_overflows(a, b) == usize_lt(a + b, a)

\* The usize x cast to off_t (i64) is negative: its top bit is set.
top_bit(x) == x < 0

(***************************************************************************)
(* Bounds of the model.  The ring algorithm reads the capacity only        *)
(* through self.size(), so Logger::new and Logger::open are exercised at   *)
(* three small capacities: one far below a record's length (a record laps  *)
(* the ring several times), one of about a record's length, and one that   *)
(* holds two records.  The Builder is exercised at its real sizes in       *)
(* SpecBuilder.                                                            *)
(***************************************************************************)
SmallCap == 4
MidCap == 14
BigCap == 29
MaxCalls == 2
MaxOpens == 2

Caps == {SmallCap, MidCap, BigCap}
Threads == {1, 2}
BuilderSizes ==
    {0, 1, MIN_SIZE - 1, MIN_SIZE, MIN_SIZE + 1, 2 * MIN_SIZE,
     usize_MAX - HEADER_SIZE, usize_MAX - HEADER_SIZE + 1, usize_MAX}

NUL == "NUL"
None == <<"None">>

Min(a, b) == IF a <= b THEN a ELSE b
Max(a, b) == IF a >= b THEN a ELSE b

(***************************************************************************)
(* log::Level and the facade's record.                                     *)
(***************************************************************************)
Levels == {"Error", "Warn", "Info", "Debug", "Trace"}

\* Level derives Ord from its discriminants: Error = 1 < Warn < ... < Trace.
LevelOrd(l) ==
    CASE l = "Error" -> 1
      [] l = "Warn"  -> 2
      [] l = "Info"  -> 3
      [] l = "Debug" -> 4
      [] l = "Trace" -> 5

level_info(l) ==
    CASE l = "Error" -> "E"
      [] l = "Warn"  -> "W"
      [] l = "Info"  -> "I"
      [] l = "Debug" -> "D"
      [] l = "Trace" -> "T"

\* The records the facade submits: file and line are Options (a line of 0
\* stands for None).  Every level and every shape of location occurs; the
\* formatted lengths are 14, 15 and 17 bytes.
Record(level, f, ln, args) ==
    [level |-> level, file |-> f, line |-> ln, target |-> <<"t">>,
     args |-> args]

Records ==
    {Record("Error", None, 1, <<"a">>),
     Record("Warn", <<"f">>, 0, <<"b", "c", "\n">>),
     Record("Info", <<"f">>, 1, <<"a">>),
     Record("Debug", None, 0, <<"a">>),
     Record("Trace", None, 0, <<"b", "c", "\n">>)}

Times == {[secs |-> 7, nanos |-> 0]}

(***************************************************************************)
(* Formatting.                                                             *)
(***************************************************************************)
Digit(d) == CASE d = 0 -> "0" [] d = 1 -> "1" [] d = 2 -> "2" [] d = 3 -> "3"
              [] d = 4 -> "4" [] d = 5 -> "5" [] d = 6 -> "6" [] d = 7 -> "7"
              [] d = 8 -> "8" [] d = 9 -> "9"

RECURSIVE Decimal(_)
\* Display of an unsigned integer.
Decimal(k) == IF k < 10 THEN <<Digit(k)>>
              ELSE Decimal(k \div 10) \o <<Digit(k % 10)>>

\* Debug of a Duration of at least one second with no fractional part, the
\* form the time since the epoch is drawn in here: "<secs>s".
DurationDebug(d) == Decimal(d.secs) \o <<"s">>

\* record.file().map_or("", |f| record.line().map_or("", |nb| "f:nb")).
\* A line of 0 stands for None.
Location(file, line) ==
    IF file = None THEN <<>>
    ELSE IF line = 0 THEN <<>>
    ELSE file \o <<":">> \o Decimal(line)

ends_with_newline(s) == Len(s) > 0 /\ s[Len(s)] = "\n"

\* format!("[{:?} {} {} {} {}] {}", ...) and the trailing newline.
format_msg(time, tid, rec) ==
    LET m == <<"[">> \o DurationDebug(time) \o <<" ">> \o Decimal(tid)
             \o <<" ", level_info(rec.level), " ">>
             \o Location(rec.file, rec.line) \o <<" ">> \o rec.target
             \o <<"]", " ">> \o rec.args
    IN  IF ends_with_newline(m) THEN m ELSE m \o <<"\n">>

\* gettid() of a thread.
gettid(t) == t

(***************************************************************************)
(* The build: whether it has cfg(debug_assertions).  The arguments of      *)
(* debug_assert_ne! and debug_assert_eq! are evaluated only then, and      *)
(* integer overflow is checked only then.                                  *)
(***************************************************************************)
VARIABLE debug_assertions

(***************************************************************************)
(* The backing file and the mapped region.  The mapping is MAP_SHARED, so  *)
(* the region and the file are one content.                                *)
(***************************************************************************)
NoData == [i \in {} |-> NUL]

NoFile == [exists |-> FALSE, size |-> 0, offset |-> 0, data |-> NoData]

\* The byte at payload index i.
ByteAt(f, i) == IF i \in DOMAIN f.data THEN f.data[i] ELSE NUL

\* The payload bytes [from, from + len) as a sequence.
Payload(f, from, len) == [k \in 1..len |-> ByteAt(f, from + k - 1)]

\* open(2) with O_CREAT | O_RDWR, O_TRUNC left out: an existing file keeps
\* its content.
open_keep(f) == IF f.exists THEN f ELSE [f EXCEPT !.exists = TRUE]

\* open(2) with O_CREAT | O_RDWR | O_TRUNC: the file exists and is empty.
open_trunc(f) == [exists |-> TRUE, size |-> 0, offset |-> 0, data |-> NoData]

\* The header word w with only its first k bytes kept and the others zero.
\* The word is stored in the target's byte order, little-endian on the
\* targets the crate builds for with gettid (x86-64, aarch64): the first k
\* bytes are the low ones.  The header words of the model are below 2^24,
\* so three bytes or more hold all of w.
LowBytes(w, k) == IF k >= 3 THEN w ELSE w % (256 ^ k)

\* ftruncate(2): bytes past the new size are dropped, new bytes read as zero.
\* The header word is what Logger::offset reads through a mapping of the
\* file, where the bytes of the page past the end of the file read as zero:
\* a file cut below HEADER_SIZE bytes keeps the first sz bytes of the word,
\* and extending it again does not change them.
ftruncate(f, sz) ==
    [exists |-> TRUE,
     size   |-> sz,
     offset |-> LowBytes(f.offset, sz),
     data   |-> [i \in {j \in DOMAIN f.data : j + HEADER_SIZE < sz}
                    |-> f.data[i]]]

NoLogger == [open |-> FALSE, size |-> 0, level |-> "Info", sync |-> FALSE,
             created |-> FALSE]

\* The points at which open_inner can fail.
Failures == {"none", "path", "open", "ftruncate", "mmap", "close"}

\* errno_try! without the block: the descriptor stays open.
close_on_error_skipped(fd) == fd

\* The block { libc::close(fd); } that errno_try! runs before it returns the
\* error: of the fd descriptors held, one is closed.
close_on_error(fd) == fd - 1

\* Logger::open_inner on file f.  create is the O_CREAT | O_TRUNC part of the
\* mode.  The result holds the file afterwards, the handle (when ok), and the
\* descriptors and mapped regions the call leaves behind; fail is the
\* system call the environment lets fail.  Three failures come by
\* themselves: open when the file is missing and the mode does not create
\* it, ftruncate when the length is negative as an off_t (EINVAL), and mmap
\* when the length is 0 (EINVAL).
\* size + Self::HEADER_SIZE is checked for overflow in a build with debug
\* assertions (overflow-checks follows debug-assertions) and panics there
\* before any system call: the result "overflow" is that panic, not an
\* error return.  Otherwise the sum wraps.
\* close(2) releases the descriptor also when it reports an error.
open_inner(f, sz, level, sync, create, fail) ==
    LET total == sz + HEADER_SIZE
        err(at, file, fd, map) ==
            [ok |-> FALSE, fail |-> at, file |-> file, logger |-> NoLogger,
             fds |-> fd, maps |-> map]
        f1 == IF create THEN open_trunc(f) ELSE f
        f2 == ftruncate(f1, total)
    IN  IF debug_assertions /\ add_overflows(sz, HEADER_SIZE)
        THEN err("overflow", f, 0, 0)
        ELSE IF fail = "path" THEN err("path", f, 0, 0)
        ELSE IF fail = "open" \/ (~create /\ ~f.exists)
        THEN err("open", f, 0, 0)
        ELSE IF fail = "ftruncate" \/ top_bit(total)
        THEN err("ftruncate", f1, close_on_error(1), 0)
        ELSE IF fail = "mmap" \/ total = 0
        THEN err("mmap", f2, close_on_error(1), 0)
        ELSE IF fail = "close" THEN err("close", f2, 0, 1)
        ELSE [ok |-> TRUE, fail |-> "none", file |-> f2,
              logger |-> [open |-> TRUE, size |-> total, level |-> level,
                          sync |-> sync, created |-> create],
              fds |-> 0, maps |-> 1]

\* Logger::size: the payload capacity.
size(lg) == lg.size - HEADER_SIZE

\* Logger::offset: the header word.
offset(f) == f.offset

\* The assertion of Logger::set_offset.
set_offset_assert(lg, new) == usize_le(new, lg.size - HEADER_SIZE)

\* A set_offset whose store to the header word is lost.
set_offset_lost(f, new) == f

\* Logger::set_offset, its assertion passed.
set_offset(f, new) == [f EXCEPT !.offset = new]

\* Logger::new.
Logger_new(f, sz, level, sync, fail) ==
    LET r == open_inner(f, sz, level, sync, TRUE, fail)
    IN  IF r.ok THEN [r EXCEPT !.file = set_offset(r.file, 0)] ELSE r

\* Logger::open.
Logger_open(f, sz, level, sync, fail) ==
    open_inner(f, sz, level, sync, FALSE, fail)

\* Builder::new and the setters size, level and sync.
Builder_new == [size |-> MIN_SIZE, level |-> "Info", sync |-> FALSE]
Builder_size(b, s) == [b EXCEPT !.size = s]
Builder_level(b, l) == [b EXCEPT !.level = l]
Builder_sync(b, enable) == [b EXCEPT !.sync = enable]

\* Builder::make_sense.
make_sense(b) ==
    IF usize_lt(b.size, MIN_SIZE) THEN [b EXCEPT !.size = MIN_SIZE] ELSE b

\* Builder::build.
Builder_build(f, b, fail) ==
    LET self == make_sense(b)
    IN  Logger_new(f, self.size, self.level, self.sync, fail)

\* Builder::open.
Builder_open(f, b, fail) ==
    LET self == make_sense(b)
    IN  Logger_open(f, self.size, self.level, self.sync, fail)

\* The builders configured: the default one, and those with size, level and
\* sync set.
Builders ==
    {Builder_new} \cup
    {Builder_sync(Builder_level(Builder_size(Builder_new, s), l), e) :
        s \in BuilderSizes, l \in Levels, e \in BOOLEAN}

\* Log::enabled with the comparison turned round.
enabled_reversed(lg, level) == LevelOrd(level) >= LevelOrd(lg.level)

\* Log::enabled.
enabled(lg, level) == LevelOrd(level) <= LevelOrd(lg.level)

\* <&mut [u8] as Write>::write on a slice of dstlen bytes: the count copied.
slice_write_n(dstlen, src) == Min(dstlen, Len(src))

\* A store that also zeroes every byte outside [at, at + cnt).
Store_clearing(f, at, src, cnt) ==
    [f EXCEPT !.data = [i \in at..(at + cnt - 1) |-> src[i - at + 1]]]

\* The payload after src[1..cnt] is copied to the indices from at on.
Store(f, at, src, cnt) ==
    [f EXCEPT !.data =
        [i \in DOMAIN f.data \cup (at..(at + cnt - 1)) |->
            IF i \in at..(at + cnt - 1) THEN src[i - at + 1] ELSE f.data[i]]]

\* source[.. left] for source[source.len() - left ..]: the head of the
\* record, not its tail.
source_head(src, cnt) == SubSeq(src, 1, cnt)

\* source[source.len() - left ..].
source_tail(src, cnt) == SubSeq(src, Len(src) - cnt + 1, Len(src))

\* The whole record's length reduced by the capacity: the count already
\* copied is not taken off.
wrap_left_total(lg, src, cnt) == Len(src) % size(lg)

\* The rest of the record, not reduced by the capacity.
wrap_left_whole(lg, src, cnt) == Len(src) - cnt

\* left in the wrap branch of Logger::log.
wrap_left(lg, src, cnt) == (Len(src) - cnt) % size(lg)

\* The branch test with < for <=: a record that ends exactly at the end of
\* the ring takes the wrap branch.
fits_strict(lg, o, src) == o + Len(src) < size(lg)

\* The branch test of Logger::log.
fits(lg, o, src) == o + Len(src) <= size(lg)

\* A compare-and-swap that never succeeds.
exchange_never(cur, expected, new) == [ok |-> FALSE, val |-> cur]

\* A compare_exchange that stores without comparing: it always succeeds.
exchange_always(cur, expected, new) == [ok |-> TRUE, val |-> new]

\* AtomicBool::compare_exchange(expected, new) on a flag holding cur.
compare_exchange(cur, expected, new) ==
    [ok |-> cur = expected, val |-> IF cur = expected THEN new ELSE cur]

(***************************************************************************)
(* State.                                                                  *)
(*   file      the backing file (and, through the shared mapping, the      *)
(*             region of the handle)                                       *)
(*   logger    the handle: open, size (header included), level, sync;      *)
(*             created tells the mode it was built in                      *)
(*   spin      the flag of the handle's SpinLock                           *)
(*   logger2, spin2                                                        *)
(*             a second handle on the same file, with its own SpinLock     *)
(*   uses      the handle (1 or 2) each thread's call goes through         *)
(*   pc        where each thread stands in Logger::log                     *)
(*   t_source, t_offset, t_n, t_left                                       *)
(*             the locals source, offset, n and left of each thread's call *)
(*   t_flight  whether the copy at the thread's position has stored its    *)
(*             bytes and has not ended yet                                 *)
(*   accepted  the records accepted on this handle, in submission order    *)
(*   calls, opens   how many log calls and constructions were made         *)
(*   last      the last operation called                                   *)
(*   fds, maps descriptors open and regions mapped in the process          *)
(*   panics    the assertions and bounds checks that failed                *)
(*   debug_assertions                                                      *)
(*             the build, declared above                                   *)
(***************************************************************************)
VARIABLES file, logger, spin, logger2, spin2, uses, pc, t_source, t_offset,
          t_n, t_flight, t_left, accepted, calls, opens, last, fds, maps,
          panics

locals == <<pc, t_source, t_offset, t_n, t_flight, t_left>>
second == <<logger2, spin2, uses>>
vars == <<file, logger, spin, logger2, spin2, uses, pc, t_source, t_offset,
          t_n, t_flight, t_left, accepted, calls, opens, last, fds, maps,
          panics, debug_assertions>>

Handles == {1, 2}

\* The handle a call of thread t goes through: self in Logger::log.
handle_of(t) == IF uses[t] = 1 THEN logger ELSE logger2

\* One lock for the file: every call takes the first handle's.
lock_shared(t) == 1

\* self.spin: the lock a call of thread t takes is its own handle's.
lock_of(t) == uses[t]

\* The flag of that lock.
flag_of(t) == IF lock_of(t) = 1 THEN spin ELSE spin2

\* A store that is lost: the flag keeps its value.
store_flag_lost(t, v) == UNCHANGED <<spin, spin2>>

\* A store of v to that flag.
store_flag(t, v) ==
    IF lock_of(t) = 1 THEN spin' = v /\ spin2' = spin2
    ELSE spin2' = v /\ spin' = spin

\* What is remembered of a file: whether it exists, its size, its header
\* word and how many payload bytes are not zero.
Summary(f) ==
    [exists |-> f.exists, size |-> f.size, offset |-> f.offset,
     used |-> Cardinality(DOMAIN f.data)]

\* The last operation: its name, whether it succeeded (for a log call:
\* whether the record passed the filter), the system call that failed, the
\* size asked for, the calling thread, the level given, and the file as it
\* was before a construction.
Op(op, ok, fail, sz, thr, level, prev) ==
    [op |-> op, ok |-> ok, fail |-> fail, size |-> sz, thr |-> thr,
     level |-> level, prev |-> Summary(prev)]

Init ==
    /\ file = NoFile
    /\ logger = NoLogger
    /\ spin = FALSE
    /\ logger2 = NoLogger
    /\ spin2 = FALSE
    /\ uses = [t \in Threads |-> 1]
    /\ pc = [t \in Threads |-> "idle"]
    /\ t_source = [t \in Threads |-> <<>>]
    /\ t_offset = [t \in Threads |-> 0]
    /\ t_n = [t \in Threads |-> 0]
    /\ t_flight = [t \in Threads |-> FALSE]
    /\ t_left = [t \in Threads |-> 0]
    /\ accepted = <<>>
    /\ calls = 0
    /\ opens = 0
    /\ last = Op("none", TRUE, "none", 0, 0, "Info", NoFile)
    /\ fds = 0
    /\ maps = 0
    /\ panics = {}
    /\ debug_assertions \in BOOLEAN

\* No thread is inside Logger::log.
Quiet == \A t \in Threads : pc[t] \in {"idle", "panicked"}

\* No thread is inside Logger::log on handle h.
QuietOn(h) == \A t \in Threads : uses[t] = h => pc[t] \in {"idle", "panicked"}

\* The state after a construction that returned r.
Constructed(r, op, sz, level) ==
    /\ ~logger2.open
    /\ file' = r.file
    /\ logger' = r.logger
    /\ spin' = FALSE
    /\ accepted' = <<>>
    /\ opens' = opens + 1
    /\ last' = Op(op, r.ok, r.fail, sz, 0, level, file)
    /\ fds' = fds + r.fds
    /\ maps' = maps + r.maps
    /\ panics' = IF r.fail = "overflow" THEN panics \cup {"add_overflow"}
                 ELSE panics
    /\ UNCHANGED <<second, locals, calls, debug_assertions>>

\* Logger::new(name, sz, level, sync).
New(sz, level, sync, fail) ==
    /\ ~logger.open
    /\ opens < MaxOpens
    /\ Constructed(Logger_new(file, sz, level, sync, fail), "new", sz, level)

\* Logger::open(name, sz, level, sync).
Open(sz, level, sync, fail) ==
    /\ ~logger.open
    /\ opens < MaxOpens
    /\ Constructed(Logger_open(file, sz, level, sync, fail), "open", sz,
                   level)

\* Builder::build(name) on a configured builder b.
Build(b, fail) ==
    /\ ~logger.open
    /\ opens < MaxOpens
    /\ Constructed(Builder_build(file, b, fail), "build", b.size, b.level)

\* Builder::open(name) on a configured builder b.
BuilderOpen(b, fail) ==
    /\ ~logger.open
    /\ opens < MaxOpens
    /\ Constructed(Builder_open(file, b, fail), "builder_open", b.size,
                   b.level)

\* debug_assert_ne!(libc::munmap(self.addr, self.size), -1) with m regions
\* mapped: the call is the macro's argument, so only a build with debug
\* assertions makes it; otherwise the region stays mapped.
debug_assert_ne_munmap(m) == IF debug_assertions THEN m - 1 ELSE m

\* Log::flush: debug_assert_ne!(libc::msync(..), -1); with or without the
\* call the content is the file's already.
Flush ==
    /\ logger.open
    /\ UNCHANGED vars

\* Drop for Logger: flush, then the munmap of a build with debug assertions.
Drop ==
    /\ logger.open
    /\ QuietOn(1)
    /\ logger' = NoLogger
    /\ spin' = FALSE
    /\ maps' = debug_assert_ne_munmap(maps)
    /\ accepted' = <<>>
    /\ last' = Op("drop", TRUE, "none", 0, 0, "Info", file)
    /\ UNCHANGED <<file, second, locals, calls, opens, fds, panics,
                   debug_assertions>>

\* Log::log on handle h, up to the lock: the level filter and the formatting.
Log(t, h, rec, time) ==
    LET self == IF h = 1 THEN logger ELSE logger2
    IN  /\ self.open
        /\ pc[t] = "idle"
        /\ calls < MaxCalls
        /\ calls' = calls + 1
        /\ uses' = [uses EXCEPT ![t] = h]
        /\ last' = Op("log", enabled(self, rec.level), "none", 0, t,
                      rec.level, NoFile)
        /\ IF enabled(self, rec.level)
           THEN LET msg == format_msg(time, gettid(t), rec)
                IN  /\ pc' = [pc EXCEPT ![t] = "lock"]
                    /\ t_source' = [t_source EXCEPT ![t] = msg]
                    /\ accepted' = Append(accepted, [thr |-> t, msg |-> msg])
           ELSE UNCHANGED <<pc, t_source, accepted>>
        /\ UNCHANGED <<file, logger, spin, logger2, spin2, t_offset, t_n,
                       t_flight, t_left, opens, fds, maps, panics,
                       debug_assertions>>

\* Logger::open(name, size, level, false) on the file the first handle has
\* mapped: a second handle, with a SpinLock of its own.
Open2(level) ==
    /\ logger.open
    /\ ~logger2.open
    /\ opens < MaxOpens
    /\ LET r == Logger_open(file, size(logger), level, FALSE, "none")
       IN  /\ file' = r.file
           /\ logger2' = r.logger
           /\ spin2' = FALSE
           /\ opens' = opens + 1
           /\ last' = Op("open2", r.ok, r.fail, size(logger), 0, level, file)
           /\ fds' = fds + r.fds
           /\ maps' = maps + r.maps
    /\ UNCHANGED <<logger, spin, uses, locals, accepted, calls, panics,
                   debug_assertions>>

\* Drop for Logger, on the second handle.
Drop2 ==
    /\ logger2.open
    /\ QuietOn(2)
    /\ logger2' = NoLogger
    /\ spin2' = FALSE
    /\ maps' = debug_assert_ne_munmap(maps)
    /\ last' = Op("drop2", TRUE, "none", 0, 0, "Info", file)
    /\ UNCHANGED <<file, logger, spin, uses, locals, accepted, calls, opens,
                   fds, panics, debug_assertions>>

\* SpinLock::lock, the compare_exchange that succeeds.
Lock(t) ==
    /\ pc[t] = "lock"
    /\ LET r == compare_exchange(flag_of(t), FALSE, TRUE)
       IN  /\ r.ok
           /\ store_flag(t, r.val)
    /\ pc' = [pc EXCEPT ![t] = "read"]
    /\ UNCHANGED <<file, logger, logger2, uses, t_source, t_offset, t_n,
                   t_flight, t_left, accepted, calls, opens, last, fds, maps,
                   panics, debug_assertions>>

\* SpinLock::lock, a compare_exchange that fails: the loop goes round.
Spin(t) ==
    /\ pc[t] = "lock"
    /\ ~compare_exchange(flag_of(t), FALSE, TRUE).ok
    /\ UNCHANGED vars

\* let offset = self.offset();
ReadOffset(t) ==
    /\ pc[t] = "read"
    /\ t_offset' = [t_offset EXCEPT ![t] = offset(file)]
    /\ pc' = [pc EXCEPT ![t] = "write1"]
    /\ UNCHANGED <<file, logger, spin, second, t_source, t_n, t_flight, t_left,
                   accepted, calls, opens, last, fds, maps, panics,
                   debug_assertions>>

\* Another thread is about to copy into the region or has a copy in flight:
\* no lock orders the two copies (the other thread holds another handle's
\* lock).
Racing(t) == \E u \in Threads : u # t /\ pc[u] \in {"write1", "write2"}

\* The payload indices the copy of thread u that is in flight covers.
FlightRange(u) ==
    IF ~t_flight[u] THEN {}
    ELSE IF pc[u] = "write1" THEN t_offset[u]..(t_offset[u] + t_n[u] - 1)
    ELSE 0..(Min(size(handle_of(u)), t_left[u]) - 1)

\* The byte that copy puts at index i.
FlightByte(u, i) ==
    IF pc[u] = "write1" THEN t_source[u][i - t_offset[u] + 1]
    ELSE source_tail(t_source[u], t_left[u])[i + 1]

\* The indices among [at, at + cnt) where a copy in flight of another thread
\* puts a different byte than src does: memcpy stores its bytes in no fixed
\* order, so at each of them either byte can be the one that lands last.
Contested(t, at, src, cnt) ==
    {i \in at..(at + cnt - 1) :
        \E u \in Threads \ {t} :
            i \in FlightRange(u) /\ FlightByte(u, i) # src[i - at + 1]}

\* The payload after the bytes of copies in flight landed at the indices
\* in late.
Overlay(f, t, late) ==
    [f EXCEPT !.data =
        [i \in DOMAIN f.data |->
            IF i \in late
            THEN FlightByte(CHOOSE u \in Threads \ {t} : i \in FlightRange(u),
                            i)
            ELSE f.data[i]]]

\* (&mut self.as_mut_slice()[offset..]).write(source) of either branch, with
\* the debug assertion on n; in the wrap branch, left is computed.  While
\* another thread is copying too, the copy stays in flight (t_flight) until
\* a second step ends it.
Write1(t) ==
    /\ pc[t] = "write1"
    /\ LET o   == t_offset[t]
           src == t_source[t]
           cap == size(handle_of(t))
           cnt == slice_write_n(cap - o, src)
           expect == IF fits(handle_of(t), o, src) THEN Len(src) ELSE cap - o
       IN  IF o > cap
           THEN /\ panics' = panics \cup {"slice_index"}
                /\ pc' = [pc EXCEPT ![t] = "unwind"]
                /\ UNCHANGED <<file, t_n, t_left, t_flight>>
           ELSE \E late \in SUBSET Contested(t, o, src, cnt),
                   stay \in IF Racing(t) THEN BOOLEAN ELSE {FALSE} :
                /\ IF t_flight[t]
                   THEN late = {} /\ ~stay /\ UNCHANGED <<file, t_n>>
                   ELSE /\ file' = Overlay(Store(file, o, src, cnt), t, late)
                        /\ t_n' = [t_n EXCEPT ![t] = cnt]
                /\ t_flight' = [t_flight EXCEPT ![t] = stay]
                /\ IF stay
                   THEN UNCHANGED <<pc, t_left, panics>>
                   ELSE IF debug_assertions /\ cnt # expect
                   THEN /\ panics' = panics \cup {"debug_assert_n"}
                        /\ pc' = [pc EXCEPT ![t] = "unwind"]
                        /\ UNCHANGED t_left
                   ELSE IF fits(handle_of(t), o, src)
                   THEN /\ pc' = [pc EXCEPT ![t] = "set_offset"]
                        /\ t_left' = [t_left EXCEPT ![t] = o + cnt]
                        /\ UNCHANGED panics
                   ELSE /\ pc' = [pc EXCEPT ![t] = "write2"]
                        /\ t_left' = [t_left EXCEPT
                                 ![t] = wrap_left(handle_of(t), src, cnt)]
                        /\ UNCHANGED panics
    /\ UNCHANGED <<logger, spin, second, t_source, t_offset, accepted, calls,
                   opens, last, fds, maps, debug_assertions>>

\* self.as_mut_slice().write(&source[source.len() - left..]) of the wrap
\* branch, with its debug assertion; in flight as the first copy is.
Write2(t) ==
    /\ pc[t] = "write2"
    /\ LET src == source_tail(t_source[t], t_left[t])
           cnt == slice_write_n(size(handle_of(t)), src)
       IN  \E late \in SUBSET Contested(t, 0, src, cnt),
              stay \in IF Racing(t) THEN BOOLEAN ELSE {FALSE} :
           /\ IF t_flight[t]
              THEN late = {} /\ ~stay /\ UNCHANGED file
              ELSE file' = Overlay(Store(file, 0, src, cnt), t, late)
           /\ t_flight' = [t_flight EXCEPT ![t] = stay]
           /\ IF stay
              THEN UNCHANGED <<pc, panics>>
              ELSE IF debug_assertions /\ cnt # t_left[t]
              THEN /\ panics' = panics \cup {"debug_assert_left"}
                   /\ pc' = [pc EXCEPT ![t] = "unwind"]
              ELSE /\ pc' = [pc EXCEPT ![t] = "set_offset"]
                   /\ UNCHANGED panics
    /\ UNCHANGED <<logger, spin, second, t_source, t_offset, t_n, t_left,
                   accepted, calls, opens, last, fds, maps, debug_assertions>>

\* self.set_offset(offset + n) or self.set_offset(left): the new offset is
\* held in t_left.
SetOffset(t) ==
    /\ pc[t] = "set_offset"
    /\ IF set_offset_assert(handle_of(t), t_left[t])
       THEN /\ file' = set_offset(file, t_left[t])
            /\ pc' = [pc EXCEPT ![t] = "unlock"]
            /\ UNCHANGED panics
       ELSE /\ panics' = panics \cup {"set_offset"}
            /\ pc' = [pc EXCEPT ![t] = "unwind"]
            /\ UNCHANGED file
    /\ UNCHANGED <<logger, spin, second, t_source, t_offset, t_n, t_flight,
                   t_left, accepted, calls, opens, last, fds, maps,
                   debug_assertions>>

\* A guard that is released at the end of the call only: a panic leaves the
\* call without running it.
Unlock_on_return_only(t) ==
    /\ pc[t] \in {"unlock", "unwind"}
    /\ LET r == compare_exchange(flag_of(t), TRUE, FALSE)
       IN  IF pc[t] = "unlock"
           THEN /\ store_flag(t, r.val)
                /\ panics' = IF r.ok THEN panics ELSE panics \cup {"unlock"}
                /\ pc' = [pc EXCEPT ![t] = IF r.ok THEN "idle" ELSE "panicked"]
           ELSE /\ UNCHANGED <<spin, spin2, panics>>
                /\ pc' = [pc EXCEPT ![t] = "panicked"]
    /\ t_source' = [t_source EXCEPT ![t] = <<>>]
    /\ t_offset' = [t_offset EXCEPT ![t] = 0]
    /\ t_n' = [t_n EXCEPT ![t] = 0]
    /\ t_flight' = [t_flight EXCEPT ![t] = FALSE]
    /\ t_left' = [t_left EXCEPT ![t] = 0]
    /\ UNCHANGED <<file, logger, logger2, uses, accepted, calls, opens, last,
                   fds, maps, debug_assertions>>

\* Drop for LockGuard: SpinLock::unlock, at the end of the call or while a
\* panic unwinds it.
Unlock(t) ==
    /\ pc[t] \in {"unlock", "unwind"}
    /\ LET r == compare_exchange(flag_of(t), TRUE, FALSE)
       IN  /\ store_flag(t, r.val)
           /\ panics' = IF r.ok THEN panics ELSE panics \cup {"unlock"}
           /\ pc' = [pc EXCEPT ![t] = IF r.ok /\ pc[t] = "unlock"
                                      THEN "idle" ELSE "panicked"]
    /\ t_source' = [t_source EXCEPT ![t] = <<>>]
    /\ t_offset' = [t_offset EXCEPT ![t] = 0]
    /\ t_n' = [t_n EXCEPT ![t] = 0]
    /\ t_flight' = [t_flight EXCEPT ![t] = FALSE]
    /\ t_left' = [t_left EXCEPT ![t] = 0]
    /\ UNCHANGED <<file, logger, logger2, uses, accepted, calls, opens, last,
                   fds, maps, debug_assertions>>

Step(t) ==
    \/ \E h \in Handles, rec \in Records, time \in Times : Log(t, h, rec, time)
    \/ Lock(t)
    \/ Spin(t)
    \/ ReadOffset(t)
    \/ Write1(t)
    \/ Write2(t)
    \/ SetOffset(t)
    \/ Unlock(t)

Next ==
    \/ \E sz \in Caps, level \in Levels, sync \in BOOLEAN, fail \in Failures :
          \/ New(sz, level, sync, fail)
          \/ Open(sz, level, sync, fail)
    \/ Flush
    \/ Drop
    \/ \E t \in Threads : Step(t)

Spec == Init /\ [][Next]_vars

\* The levels of the second handle; the first is at Info.  The records that
\* pass are the Error (14 bytes), Warn (15) and Info (17) records.
TwoLevels == {"Warn", "Info"}

\* Two handles on one file: the first created, the second opened on it.
NextTwo ==
    \/ \E sz \in Caps : New(sz, "Info", FALSE, "none")
    \/ \E level \in TwoLevels : Open2(level)
    \/ Drop2
    \/ \E t \in Threads : Step(t)

SpecTwo == Init /\ [][NextTwo]_vars

\* The steps of a call once it has been issued.
Proceed(t) ==
    \/ Lock(t)
    \/ ReadOffset(t)
    \/ Write1(t)
    \/ Write2(t)
    \/ SetOffset(t)
    \/ Unlock(t)

\* Every thread that is inside a call keeps being scheduled.
SpecFair == Spec /\ \A t \in Threads : WF_vars(Proceed(t))

\* The file an earlier run left behind: Logger::new at the largest capacity,
\* one record logged at offset 0, the handle dropped.
LeftBehind(time, tid, rec) ==
    LET msg == format_msg(time, tid, rec)
        r   == Logger_new(NoFile, BigCap, "Info", FALSE, "none")
    IN  set_offset(Store(r.file, 0, msg, Len(msg)), Len(msg))

\* A process that starts with such a file on disk.
InitStale ==
    /\ debug_assertions \in BOOLEAN
    /\ file \in {LeftBehind(time, gettid(1), rec) :
                     time \in Times,
                     rec \in {x \in Records : LevelOrd(x.level) <= LevelOrd("Info")}}
    /\ logger = NoLogger
    /\ spin = FALSE
    /\ logger2 = NoLogger
    /\ spin2 = FALSE
    /\ uses = [t \in Threads |-> 1]
    /\ pc = [t \in Threads |-> "idle"]
    /\ t_source = [t \in Threads |-> <<>>]
    /\ t_offset = [t \in Threads |-> 0]
    /\ t_n = [t \in Threads |-> 0]
    /\ t_flight = [t \in Threads |-> FALSE]
    /\ t_left = [t \in Threads |-> 0]
    /\ accepted = <<>>
    /\ calls = 0
    /\ opens = 0
    /\ last = Op("none", TRUE, "none", 0, 0, "Info", NoFile)
    /\ fds = 0
    /\ maps = 0
    /\ panics = {}

SpecStale == InitStale /\ [][Next]_vars

\* The Builder at its real sizes: constructions and teardown.
NextBuilder ==
    \/ \E b \in Builders, fail \in Failures :
          \/ Build(b, fail)
          \/ BuilderOpen(b, fail)
    \/ Flush
    \/ Drop

SpecBuilder == Init /\ [][NextBuilder]_vars

(***************************************************************************)
(* Properties.                                                             *)
(***************************************************************************)
RECURSIVE Concat(_)
\* The records of a sequence of accepted submissions, joined.
Concat(acc) == IF acc = <<>> THEN <<>>
               ELSE Concat(SubSeq(acc, 1, Len(acc) - 1)) \o acc[Len(acc)].msg

\* Every call has returned and none panicked.
Returned == (\A t \in Threads : pc[t] = "idle") /\ panics = {}

\* All accepted records came from one thread.
SingleThreaded == \A i, j \in DOMAIN accepted : accepted[i].thr = accepted[j].thr

\* C1: on a handle built in Create mode, once the calls of a single thread
\* have returned and the accepted records total T <= capacity bytes, the
\* payload bytes [0, T) are the records joined in submission order and the
\* header offset is T (T = capacity included).
C1_ConcatInOrder ==
    (/\ logger.open
     /\ logger.created
     /\ Returned
     /\ SingleThreaded
     /\ Len(Concat(accepted)) <= size(logger))
    => (/\ offset(file) = Len(Concat(accepted))
        /\ Payload(file, 0, Len(Concat(accepted))) = Concat(accepted))

\* Two records of one thread that fill the ring exactly: the offset is the
\* capacity.
C1_Witness ==
    /\ logger.open
    /\ logger.created
    /\ Returned
    /\ SingleThreaded
    /\ Len(accepted) = 2
    /\ Len(Concat(accepted)) = size(logger)
    /\ offset(file) = size(logger)

\* The thread t is in the wrap branch with the offset it read within bounds.
InWrap(t) ==
    /\ t_offset[t] <= size(logger)
    /\ t_offset[t] + Len(t_source[t]) > size(logger)

\* remaining mod cap of the wrap branch, from the claim's formula.
Remaining(t) ==
    (Len(t_source[t]) - (size(logger) - t_offset[t])) % size(logger)

\* C2: a write from offset o with o + len > cap first stores the first
\* cap - o bytes of the record at [o, cap), then stores the record's last
\* (len - (cap - o)) mod cap bytes at [0, (len - (cap - o)) mod cap), and
\* sets the header offset to (len - (cap - o)) mod cap.
C2_Wraparound ==
    \A t \in Threads :
        /\ (pc[t] = "write2" /\ InWrap(t)) =>
              /\ t_n[t] = size(logger) - t_offset[t]
              /\ Payload(file, t_offset[t], t_n[t])
                    = SubSeq(t_source[t], 1, t_n[t])
              /\ t_left[t] = Remaining(t)
        /\ (pc[t] \in {"set_offset", "unlock"} /\ InWrap(t)) =>
              Payload(file, 0, Remaining(t))
                 = SubSeq(t_source[t], Len(t_source[t]) - Remaining(t) + 1,
                          Len(t_source[t]))
        /\ (pc[t] = "unlock" /\ InWrap(t)) => offset(file) = Remaining(t)

\* A wrap from the middle of the ring, both parts not empty, done.
C2_Witness ==
    \E t \in Threads :
        /\ pc[t] = "unlock"
        /\ InWrap(t)
        /\ 0 < t_offset[t]
        /\ t_offset[t] < size(logger)
        /\ Remaining(t) > 0
        /\ offset(file) = Remaining(t)

\* C3: after a write of one record longer than the capacity, from any
\* offset, the payload read round the ring from the header offset is the
\* record's last cap bytes, and the header offset is len mod cap.
C3_OversizedKeepsLastLap ==
    \A t \in Threads :
        (/\ pc[t] = "unlock"
         /\ t_offset[t] <= size(logger)
         /\ Len(t_source[t]) > size(logger))
        => (/\ offset(file) = Len(t_source[t]) % size(logger)
            /\ \A j \in 0..(size(logger) - 1) :
                  ByteAt(file, (offset(file) + j) % size(logger))
                     = t_source[t][Len(t_source[t]) - size(logger) + j + 1])

\* The permutations of 1..k.
Perms(k) ==
    {p \in [1..k -> 1..k] : \A i, j \in 1..k : p[i] = p[j] => i = j}

\* C4: on a handle built in Create mode, once the calls of all threads have
\* returned and the accepted records total T <= capacity bytes, the payload
\* bytes [0, T) are the records joined whole in some order, and the header
\* offset is T.
C4_WholeMessages ==
    (/\ logger.open
     /\ logger.created
     /\ Returned
     /\ Len(Concat(accepted)) <= size(logger))
    => (/\ offset(file) = Len(Concat(accepted))
        /\ \E p \in Perms(Len(accepted)) :
              Payload(file, 0, Len(Concat(accepted)))
                 = Concat([i \in 1..Len(accepted) |-> accepted[p[i]]]))

\* Two threads wrote one record each, and the thread that submitted second
\* took the lock first.
C4_Witness ==
    /\ logger.open
    /\ logger.created
    /\ Returned
    /\ Len(accepted) = 2
    /\ accepted[1].thr # accepted[2].thr
    /\ Len(Concat(accepted)) <= size(logger)
    /\ Payload(file, 0, Len(Concat(accepted)))
          = accepted[2].msg \o accepted[1].msg
    /\ accepted[2].msg \o accepted[1].msg # Concat(accepted)

\* C5: the header offset of an open handle never exceeds its capacity.
C5_OffsetInvariant == logger.open => offset(file) <= size(logger)

\* C6: reopening a file right after its handle was torn down leaves the
\* file as it was: same size, same header offset, same payload bytes.
C6_ReopenPreserves ==
    [][(/\ last.op = "drop"
        /\ opens' = opens + 1
        /\ last'.op = "open"
        /\ last'.ok)
       => file' = file]_vars

\* C7: a handle built in Create mode has header offset 0, a file of header
\* size plus capacity bytes, and a payload of zero bytes only, whatever the
\* file held before.
C7_CreateResets ==
    (last.op = "new" /\ last.ok)
    => (/\ offset(file) = 0
        /\ size(logger) = last.size
        /\ file.size = HEADER_SIZE + last.size
        /\ \A i \in 0..(size(logger) - 1) : ByteAt(file, i) = NUL)

\* Create mode on a file that held records and a header offset above 0.
C7_Witness ==
    /\ last.op = "new"
    /\ last.ok
    /\ last.prev.exists
    /\ last.prev.offset > 0
    /\ last.prev.used > 0
    /\ offset(file) = 0
    /\ DOMAIN file.data = {}

\* The severity l is less severe than the threshold.
LessSevere(l, threshold) == LevelOrd(l) > LevelOrd(threshold)

\* C8: a log call whose severity is less severe than the handle's threshold
\* changes nothing: not the file (header offset and payload), not the lock
\* flag, not the handle, and the calling thread does not enter the write
\* path; the record is not among the accepted ones.
C8_FilteredNoEffect ==
    [][(/\ calls' = calls + 1
        /\ LessSevere(last'.level, logger.level))
       => UNCHANGED <<file, logger, spin, pc, t_source, t_offset, t_n,
                      t_left, accepted>>]_vars

\* A filtered call made on a handle that holds records already.
C8_Witness ==
    /\ logger.open
    /\ last.op = "log"
    /\ ~last.ok
    /\ LessSevere(last.level, logger.level)
    /\ offset(file) > 0
    /\ calls = 2
    /\ Len(accepted) = 1

\* C9: a construction that fails at the path conversion, at open, at the
\* resize or at the mapping returns an error, and no descriptor it acquired
\* stays open.
C9_FailureClosesDescriptor ==
    (/\ last.op \in {"new", "open", "build", "builder_open"}
     /\ last.fail \in {"path", "open", "ftruncate", "mmap"})
    => (/\ ~last.ok
        /\ ~logger.open
        /\ fds = 0)

\* Both modes have failed after the descriptor was acquired.
C9_Witness ==
    /\ opens = 2
    /\ last.op = "open"
    /\ last.fail \in {"ftruncate", "mmap"}
    /\ last.prev.exists
    /\ last.prev.size = 0
    /\ fds = 0

\* z is the sum of the usize values a and b as numbers: the addition stays
\* within the word.
Sum(z, a, b) == ~add_overflows(a, b) /\ z = a + b

\* The last operation was Builder::build or Builder::open.
Built == last.op \in {"build", "builder_open"}

\* The call ended in a handle or in the error of one of open_inner's steps,
\* and a handle has capacity max(n, MIN_SIZE) over a region and a file of
\* HEADER_SIZE + max(n, MIN_SIZE) bytes, n the size the builder was given.
Normalized ==
    /\ ~last.ok => last.fail \in Failures \ {"none"}
    /\ last.ok =>
          (/\ logger.open
           /\ size(logger) = usize_max(last.size, MIN_SIZE)
           /\ Sum(logger.size, HEADER_SIZE, usize_max(last.size, MIN_SIZE))
           /\ Sum(file.size, HEADER_SIZE, usize_max(last.size, MIN_SIZE)))

\* C10: for every size n given to the builder (MIN_SIZE when none was),
\* build and open construct a handle of capacity max(n, MIN_SIZE) over a
\* region and file of HEADER_SIZE + max(n, MIN_SIZE) bytes; no size is
\* rejected.
C10_BuilderNormalizes == Built => Normalized

\* The same for the sizes n <= usize::MAX - HEADER_SIZE only.
NormalizesBelowOverflow ==
    (Built /\ ~add_overflows(last.size, HEADER_SIZE)) => Normalized

\* A builder given usize::MAX returned a handle over a file shorter than the
\* header.
WrappedHandle ==
    /\ Built
    /\ last.ok
    /\ last.size = usize_MAX
    /\ file.size < HEADER_SIZE

\* A file built larger is opened by a builder given a size below the floor.
FloorOnOpen ==
    /\ last.op = "builder_open"
    /\ last.ok
    /\ last.size < MIN_SIZE
    /\ last.size >= 0
    /\ last.prev.size > HEADER_SIZE + MIN_SIZE
    /\ size(logger) = MIN_SIZE

\* The program points between lock() returning and the guard's release.
Critical == {"read", "write1", "write2", "set_offset", "unlock", "unwind"}

InCritical(t) == pc[t] \in Critical

\* A call of thread t is under way.
Calling(t) == pc[t] \notin {"idle", "panicked"}

\* C11: under weak fairness of every thread's steps, a call that is under
\* way on a handle whose stored offset is within the capacity returns, and
\* the system settles in a state where every call has ended and the lock
\* flag is unlocked.
C11_WriteCompletes ==
    /\ \A t \in Threads :
          (Calling(t) /\ offset(file) <= size(logger)) ~> (pc[t] = "idle")
    /\ <>[](Quiet /\ ~spin)

\* A thread spins on the lock while the other is about to release it.
C11_Witness ==
    \E t, u \in Threads :
        /\ pc[t] = "lock"
        /\ pc[u] = "unlock"
        /\ spin
        /\ offset(file) <= size(logger)

\* C12: through one handle at most one thread is between lock() returning
\* and the guard's release, and the flag is true exactly when one is.
C12_MutualExclusion ==
    /\ Cardinality({t \in Threads : InCritical(t)}) <= 1
    /\ spin <=> (\E t \in Threads : InCritical(t))

\* One thread is in the second write of a wrap while the other spins.
C12_Witness ==
    \E t, u \in Threads :
        /\ pc[t] = "write2"
        /\ pc[u] = "lock"
        /\ spin

\* C13: a call that panics inside the critical section leaves it through the
\* guard, which resets the flag; once a call has ended by a panic and no
\* thread is in the critical section the flag is false, so a lock() that
\* follows succeeds.
C13_ReleasedOnFailure ==
    /\ [][\A t \in Threads :
             pc[t] = "unwind" /\ pc'[t] # "unwind"
                 => pc'[t] = "panicked" /\ ~spin']_vars
    /\ []((panics # {} /\ \A t \in Threads : ~InCritical(t)) => ~spin)

\* One call ended by a panic and the other thread took the lock after it.
C13_Witness ==
    \E t, u \in Threads :
        /\ pc[t] = "panicked"
        /\ pc[u] = "read"
        /\ spin
        /\ panics = {"slice_index"}

\* C14: whenever a guard is about to be released the flag is true, so the
\* assertion of SpinLock::unlock has never failed.
C14_NoDoubleUnlock ==
    /\ "unlock" \notin panics
    /\ \A t \in Threads : pc[t] \in {"unlock", "unwind"} => flag_of(t)

\* A guard is about to be released after the other thread's guard was.
C14_Witness ==
    \E t, u \in Threads :
        /\ pc[t] \in {"unlock", "unwind"}
        /\ pc[u] = "panicked"
        /\ flag_of(t)
        /\ "unlock" \notin panics

\* The expected state of a call of thread t that read an offset within the
\* capacity: no panic, the counts copied and the new offset as computed.
StepValid(t) ==
    LET o   == t_offset[t]
        src == t_source[t]
        len == Len(src)
        cap == size(handle_of(t))
        left == (len - (cap - o)) % cap
    IN  /\ pc[t] # "unwind"
        /\ pc[t] \in {"write2", "set_offset", "unlock"} =>
              IF o + len <= cap
              THEN t_n[t] = len /\ t_left[t] = o + len /\ pc[t] # "write2"
              ELSE t_n[t] = cap - o /\ t_left[t] = left
        /\ pc[t] = "write2" =>
              slice_write_n(cap, source_tail(src, t_left[t])) = left
        /\ pc[t] \in {"set_offset", "unlock"} => t_left[t] <= cap
        /\ pc[t] = "unlock" => offset(file) = t_left[t]

\* C15: a call that read an offset o <= cap fails no assertion: the no-wrap
\* branch copies len bytes, the wrap branch cap - o bytes and then
\* left = (len - (cap - o)) mod cap bytes, and the offset it sets is <= cap.
C15_AssertionsHold ==
    /\ panics \subseteq {"slice_index"}
    /\ \A t \in Threads :
          (pc[t] \in {"write1", "write2", "set_offset", "unlock", "unwind"}
             /\ t_offset[t] <= size(handle_of(t))) => StepValid(t)

\* A record longer than the capacity was written from offset = capacity.
C15_Witness ==
    \E t \in Threads :
        /\ pc[t] = "unlock"
        /\ t_offset[t] = size(logger)
        /\ Len(t_source[t]) > size(logger)
        /\ panics = {}

\* The threads whose call goes through handle h and is in its critical
\* section.
Inside(h) == {t \in Threads : uses[t] = h /\ InCritical(t)}

\* C16: the lock belongs to the handle: each handle's flag is true exactly
\* when one of the threads calling through that handle is in the critical
\* section, whatever the callers of the other handle on the same file do.
C16_LockPerHandle ==
    /\ Cardinality(Inside(1)) <= 1
    /\ Cardinality(Inside(2)) <= 1
    /\ spin <=> Inside(1) # {}
    /\ spin2 <=> Inside(2) # {}

\* Two records that fit together were written through the two handles and
\* both calls returned, and the stored offset counts only one of them.
C16_Witness ==
    /\ Returned
    /\ Len(accepted) = 2
    /\ uses[accepted[1].thr] # uses[accepted[2].thr]
    /\ Len(Concat(accepted)) <= size(logger)
    /\ offset(file) < Len(Concat(accepted))

\* The byte a reference ring of capacity cap holds at index i after bytes
\* were submitted: the k-th byte (k from 0) is stored at k mod cap.
RingByte(bytes, cap, i) ==
    LET ks == {k \in 0..(Len(bytes) - 1) : k % cap = i}
    IN  IF ks = {} THEN NUL
        ELSE bytes[(CHOOSE k \in ks : \A j \in ks : j <= k) + 1]

\* The orders in which the accepted records can have taken the lock: each
\* thread's records stay in the order it submitted them.
Linearizations ==
    {p \in Perms(Len(accepted)) :
        \A i, j \in DOMAIN accepted :
            (i < j /\ accepted[p[i]].thr = accepted[p[j]].thr) => p[i] < p[j]}

\* C17: on a handle built in Create mode, once the calls have returned and
\* every accepted record is at most the capacity long, the payload is that
\* of the reference ring fed the records whole, in an order that keeps each
\* thread's own order.
C17_RingRefinement ==
    (/\ logger.open
     /\ logger.created
     /\ Returned
     /\ \A i \in DOMAIN accepted : Len(accepted[i].msg) <= size(logger))
    => \E p \in Linearizations :
          \A i \in 0..(size(logger) - 1) :
              ByteAt(file, i)
                 = RingByte(Concat([k \in 1..Len(accepted) |-> accepted[p[k]]]),
                            size(logger), i)

\* C18: on a handle built in Create mode, once the calls of all threads
\* have returned, the header offset is congruent modulo the capacity to the
\* total length of the accepted records, whatever their lengths.
C18_OffsetCountsBytes ==
    (/\ logger.open
     /\ logger.created
     /\ Returned)
    => offset(file) % size(logger) = Len(Concat(accepted)) % size(logger)

\* Two threads wrote one record each, both longer than the capacity, and
\* the total is not a multiple of the capacity.
C18_Witness ==
    /\ logger.open
    /\ logger.created
    /\ Returned
    /\ Len(accepted) = 2
    /\ accepted[1].thr # accepted[2].thr
    /\ \A i \in DOMAIN accepted : Len(accepted[i].msg) > size(logger)
    /\ Len(Concat(accepted)) % size(logger) # 0
    /\ offset(file) = Len(Concat(accepted)) % size(logger)

\* The payload indices a call of thread t may store to.
Frame(t) ==
    LET o   == t_offset[t]
        len == Len(t_source[t])
        cap == size(logger)
    IN  IF o + len <= cap THEN o..(o + len - 1)
        ELSE (o..(cap - 1)) \cup (0..(((len - (cap - o)) % cap) - 1))

\* C19: a step of a call changes no payload byte outside [o, o + len) in
\* the no-wrap case, outside [o, cap) and [0, (len - (cap - o)) mod cap) in
\* the wrap case; it changes the header offset only in set_offset; the file
\* size and the handle's size, level and sync flag stay as they are.
C19_WriteFrame ==
    [][\A t \in Threads :
          pc'[t] # pc[t] =>
             /\ logger' = logger
             /\ file'.size = file.size
             /\ file'.exists = file.exists
             /\ offset(file') # offset(file) => pc[t] = "set_offset"
             /\ \A i \in DOMAIN file.data \cup DOMAIN file'.data :
                   ByteAt(file', i) # ByteAt(file, i) => i \in Frame(t)]_vars

\* A second record was appended after the first, which is still in place.
C19_Witness ==
    \E t \in Threads :
        /\ pc[t] = "unlock"
        /\ Len(accepted) = 2
        /\ t_offset[t] = Len(accepted[1].msg)
        /\ t_offset[t] + Len(t_source[t]) <= size(logger)
        /\ Payload(file, 0, t_offset[t]) = accepted[1].msg
        /\ Payload(file, t_offset[t], Len(t_source[t])) = t_source[t]

\* C20: a construction that returns an error, whichever system call
\* failed, leaves the process with no more mapped regions than it had.
C20_NoMappingOnError ==
    [][(/\ opens' = opens + 1
        /\ last'.op \in {"new", "open", "build", "builder_open"}
        /\ ~last'.ok)
       => maps' = maps]_vars
====
